---- MODULE Spec2Model ----
(***************************************************************************)
(* commit-wizard: one run of the `workflow` or `commit` command            *)
(* (src/unnamed/part_003), over the language-model client (src/src/lib/    *)
(* ai.ts), the configuration store and the version-control adapter         *)
(* (src/src/lib/config.ts) and the code-hosting client                     *)
(* (src/unnamed/part_002); and the config command (src/src/commands/        *)
(* config.ts) over the configuration store.                                *)
(*                                                                         *)
(* Text is a sequence of lexemes: a word lexeme stands for a run of \w     *)
(* characters, the others for themselves.  An absent value (undefined,     *)
(* null) is the empty set {} and a present value v is {v}; a configuration *)
(* object is a function whose DOMAIN is the set of keys it holds.          *)
(***************************************************************************)
EXTENDS Integers, Sequences, FiniteSets, TLC

\* ------------------------------------------------------------------ bounds
\* Most files one run stages.
MaxFiles == 2
\* Largest maxConcurrency the stored configuration holds in the model.
MaxWidth == 2

\* ------------------------------------------------------------ text helpers
WordLexemes == {"feat", "fix", "add", "update"}
Space == {" ", "\n"}

RECURSIVE DropSpace(_)
\* String.prototype.trimStart
DropSpace(s) ==
  IF s # <<>> /\ Head(s) \in Space THEN DropSpace(Tail(s)) ELSE s

RECURSIVE DropSpaceEnd(_)
\* String.prototype.trimEnd
DropSpaceEnd(s) ==
  IF s # <<>> /\ s[Len(s)] \in Space
  THEN DropSpaceEnd(SubSeq(s, 1, Len(s) - 1)) ELSE s

trim(s) == DropSpaceEnd(DropSpace(s))

RECURSIVE WordRun(_)
\* Length of the longest prefix of \w lexemes.
WordRun(s) ==
  IF s # <<>> /\ Head(s) \in WordLexemes THEN 1 + WordRun(Tail(s)) ELSE 0

RECURSIVE UpTo(_, _)
\* Length of the longest prefix holding no lexeme c.
UpTo(s, c) == IF s # <<>> /\ Head(s) # c THEN 1 + UpTo(Tail(s), c) ELSE 0

Drop(s, k) == SubSeq(s, k + 1, Len(s))
Take(s, k) == SubSeq(s, 1, k)
Contains(s, x) == \E i \in 1..Len(s) : s[i] = x

\* The match of /^(\w+)(?:\(([^)]+)\))?:\s*(.+)$/ on s: {} when there is none,
\* else {[type, scope, subject]} with scope {} when the group did not take part.
ConventionalMatch(s) ==
  LET k     == WordRun(s)
      r1    == Drop(s, k)
      hasSc == r1 # <<>> /\ Head(r1) = "("
      inner == IF hasSc THEN Take(Tail(r1), UpTo(Tail(r1), ")")) ELSE <<>>
      r2    == IF hasSc THEN Drop(Tail(r1), Len(inner)) ELSE r1
      r3    == IF hasSc /\ r2 # <<>> THEN Tail(r2) ELSE r2
      rest  == IF r3 # <<>> THEN DropSpace(Tail(r3)) ELSE <<>>
  IN IF /\ k >= 1
        /\ (hasSc => inner # <<>> /\ r2 # <<>> /\ Head(r2) = ")")
        /\ r3 # <<>> /\ Head(r3) = ":"
        /\ rest # <<>>
        /\ ~Contains(rest, "\n")
     THEN {[type |-> Take(s, k),
            scope |-> IF hasSc THEN {inner} ELSE {},
            subject |-> rest]}
     ELSE {}

\* ----------------------------------------------------------- configuration
SecretValues == {"", "secret"}
NoConfig == [k \in {} |-> 0]

\* The model a user may have chosen.
ModelValues == {"openai/gpt-4o"}

\* What the config file may hold: each key absent or present, a secret empty
\* or not, a maxConcurrency from 0 up, a model name.
StoredConfigs ==
  { a @@ g @@ m @@ d :
      a \in {NoConfig} \cup {("openRouterApiKey" :> v) @@ NoConfig : v \in SecretValues},
      g \in {NoConfig} \cup {("githubToken" :> v) @@ NoConfig : v \in SecretValues},
      m \in {NoConfig} \cup {("maxConcurrency" :> v) @@ NoConfig : v \in 0..MaxWidth},
      d \in {NoConfig} \cup {("defaultModel" :> v) @@ NoConfig : v \in ModelValues} }

\* !config[key] for a string-valued key
MissingKey(config, key) == key \notin DOMAIN config \/ config[key] = ""

RequiredKeys == <<"openRouterApiKey", "githubToken">>

\* validateConfig with the hosting token left out of `required`.
validateApiKeyOnly(config) ==
  SelectSeq(<<"openRouterApiKey">>, LAMBDA k : MissingKey(config, k))

\* ConfigManager.validateConfig: the required keys that are absent or empty.
validateConfig(config) ==
  SelectSeq(RequiredKeys, LAMBDA k : MissingKey(config, k))

\* The defaults getWorkingConfig spreads the stored configuration over.
ConfigDefaults ==
  ("defaultModel" :> "google/gemini-flash-1.5") @@ ("maxConcurrency" :> 3) @@ NoConfig

\* ConfigManager.getWorkingConfig: { defaults, ...config }
getWorkingConfig(config) == config @@ ConfigDefaults

\* AIService.constructor: pLimit(config.maxConcurrency || 3)
LimiterWidth(config) ==
  IF "maxConcurrency" \in DOMAIN config /\ config["maxConcurrency"] # 0
  THEN config["maxConcurrency"] ELSE 3

\* The key check as `apiKey === undefined`: an empty key passes.
ApiKeyUndefinedOnly(config) == "openRouterApiKey" \notin DOMAIN config

\* makeOpenRouterRequest: !apiKey
ApiKeyMissing(config) == MissingKey(config, "openRouterApiKey")

\* The model a request of the given kind falls back to.
FallbackModel(kind) ==
  IF kind = "commit" THEN "google/gemini-flash-2.5" ELSE "google/gemini-flash-1.5"

\* The `model` of a request body: this.config.defaultModel || fallback
ModelFor(kind, config) ==
  IF MissingKey(config, "defaultModel") THEN FallbackModel(kind)
  ELSE config["defaultModel"]

\* ------------------------------------------------------------------ inputs
FileNames == <<"a.ts", "b.ts", "c.ts", "d.ts", "e.ts">>
Files == {FileNames[i] : i \in 1..MaxFiles}
Range(s) == {s[i] : i \in 1..Len(s)}

\* What `git diff --cached --name-status` may list: distinct paths, in git's
\* own (path) order.
StagedLists ==
  { [i \in 1..Len(ix) |-> FileNames[ix[i]]] :
      ix \in { x \in UNION {[1..n -> 1..MaxFiles] : n \in 0..MaxFiles} :
                 \A i, j \in 1..Len(x) : i < j => x[i] < x[j] } }

Main == <<"main">>
Supplied == <<"b1">>
Generated == <<"gen">>
DefaultBranch == <<"feat/automated-changes">>
\* The local branches besides the checked-out one.
BranchSets == {{Main} \cup s : s \in SUBSET {Supplied, Generated}}

Commands == {"workflow", "commit"}
\* --branch absent, empty or a name; --no-pr; --push
WorkflowOptions ==
  { [cmd |-> "workflow", branch |-> b, noPr |-> p, push |-> FALSE] :
      b \in {{}, {<<>>}, {Supplied}}, p \in BOOLEAN }
CommitOptions ==
  { [cmd |-> "commit", branch |-> {}, noPr |-> FALSE, push |-> p] : p \in BOOLEAN }

\* The content of a chat completion: no choice at all, or the text of choices[0].
Replies ==
  { {},
    {<<" ">>},
    {<<"fix", ":", " ", "add">>},
    {<<"add", "!">>} }
BranchReplies == { {}, {<<" ">>}, {<<" ", "gen">>} }

\* How an HTTP round trip ends: a 2xx response, another status, or no response.
HttpFailures == {"status", "network"}

\* ------------------------------------------------------------------ errors
KeyError == <<"OpenRouter API key not configured">>
\* makeOpenRouterRequest's error for a non-2xx response, or fetch's own
HttpError(kind) ==
  IF kind = "status" THEN <<"OpenRouter API error: ", "500">> ELSE <<"fetch failed">>
\* `${error}` of an Error object
ErrorText(e) == <<"Error: ">> \o e

\* ------------------------------------------------------------------- state
VARIABLES
  stored,         \* the config file: a function over the keys it holds
  options,        \* the command and its flags
  pc,             \* where the command is
  exitCode,       \* {} while running, {0} or {1} once the process has ended
  err,            \* the message of the failure that ended the run, else <<>>
  reported,       \* {} or {the missing key names printed}
  config,         \* the working configuration of the run
  repo,           \* detectRepository returned a RepoInfo
  width,          \* the limiter's concurrency
  stagedFiles,    \* the staged paths as listed
  index,          \* the paths in the staging area
  queue,          \* the limiter's queue: indexes into stagedFiles
  inflight,       \* the generations whose HTTP request is in flight
  results,        \* index -> CommitMessage, for the fulfilled generations
  failedGen,      \* the rejected generations
  doneOrder,      \* the fulfilled generations in completion order
  genErr,         \* {} or {the first generation error}
  commitMessages, \* what generateCommitMessagesInParallel resolved with
  branchName,     \* {} or {the branch the workflow resolved}
  branches,       \* the local branches
  currentBranch,  \* the checked-out branch
  created,        \* the branches createBranch made, in order
  commits,        \* the commits created, oldest first
  pushed,         \* the branches pushed
  existingPr,     \* {} before the lookup, then {"pr"} or {"null"}
  lookupOutcome,  \* {} or {how the round trip of findExistingPR ended}
  outOfOrder,     \* the generations were fulfilled in another order than listed
  llmIssued,      \* the requests sent to the language-model service
  hosting,        \* the requests sent to the hosting service, in order
  listed,         \* getStagedFiles was called
  unstageCalled,  \* unstageAllFiles was called
  file,           \* the config file as the config commands read and write it
  shown,          \* the values the last config command printed
  got,            \* {} or {what the last getConfigValue returned}
  written,        \* key -> the value last handed to setConfig for it
  lastOp          \* the last config command and its key and value

cfgVars == <<stored, options, file, shown, got, written, lastOp>>
runVars == <<config, repo, width, reported>>
genVars == <<queue, inflight, results, failedGen, doneOrder, genErr, outOfOrder>>
gitVars == <<index, branches, currentBranch, created, commits, pushed, unstageCalled>>
netVars == <<llmIssued, hosting, lookupOutcome>>
vars == <<stored, options, pc, exitCode, err, reported, config, repo, width,
          stagedFiles, index, queue, inflight, results, failedGen, doneOrder,
          genErr, commitMessages, branchName, branches, currentBranch, created, commits,
          pushed, existingPr, lookupOutcome, outOfOrder, llmIssued, hosting, listed,
          unstageCalled, file, shown, got, written, lastOp>>

NoResults == [i \in {} |-> 0]

\* A config file that does not exist, or holds {}.
EmptyFile == [valid |-> TRUE, entries |-> NoConfig]
NoOp == [op |-> "none", key |-> "", value |-> <<>>]

\* No config command has run: a run of workflow or commit reads the file
\* through getWorkingConfig (stored) and never writes it.
ConfigIdle ==
  /\ file = EmptyFile
  /\ shown = {}
  /\ got = {}
  /\ written = NoConfig
  /\ lastOp = NoOp

\* What nothing has touched yet when a run or a call starts.
InitRest ==
  /\ exitCode = {}
  /\ err = <<>>
  /\ reported = {}
  /\ repo = FALSE
  /\ index = {}
  /\ queue = <<>>
  /\ inflight = {}
  /\ results = NoResults
  /\ failedGen = {}
  /\ doneOrder = <<>>
  /\ genErr = {}
  /\ commitMessages = <<>>
  /\ branchName = {}
  /\ currentBranch = Main
  /\ created = <<>>
  /\ commits = <<>>
  /\ pushed = <<>>
  /\ existingPr = {}
  /\ lookupOutcome = {}
  /\ outOfOrder = FALSE
  /\ llmIssued = {}
  /\ hosting = <<>>
  /\ listed = FALSE
  /\ unstageCalled = FALSE

\* The process starts with whatever the config file holds; config is read by
\* getWorkingConfig.
Init ==
  /\ stored \in StoredConfigs
  /\ options \in WorkflowOptions \cup CommitOptions
  /\ config = NoConfig
  /\ branches \in (IF options.cmd = "workflow" THEN BranchSets ELSE {{Main}})
  /\ pc = "start"
  /\ width = 0
  /\ stagedFiles = <<>>
  /\ InitRest
  /\ ConfigIdle

\* The failure printed and the run going on.
LogAndContinue(msg) ==
  /\ pc' = pc
  /\ exitCode' = exitCode
  /\ err' = msg

\* process.exit(1) after printing msg
Exit1(msg) ==
  /\ pc' = "exit"
  /\ exitCode' = {1}
  /\ err' = msg

\* The repository check made by both commands.
RepoAlwaysRequired(cmd) == TRUE

\* handleWorkflow reads repo and requires it; handleCommit does not.
RepoRequired(cmd) == cmd = "workflow"

\* handleWorkflow / handleCommit up to the AIService: getWorkingConfig, the
\* configuration check and (workflow) the repository check.
LoadConfig ==
  /\ pc = "start"
  /\ options.cmd \in Commands
  /\ \E r \in BOOLEAN :
       LET missing == validateConfig(stored) IN
       /\ config' = getWorkingConfig(stored)
       /\ repo' = r
       /\ IF missing # <<>>
          THEN /\ reported' = {missing}
               /\ Exit1(<<"Configuration missing!">>)
          ELSE /\ reported' = reported
               /\ IF RepoRequired(options.cmd) /\ ~r
                  THEN Exit1(<<"Not a git repository or repository not recognized">>)
                  ELSE /\ pc' = "checkGit"
                       /\ UNCHANGED <<exitCode, err>>
  /\ UNCHANGED <<cfgVars, width, stagedFiles, genVars, commitMessages, branchName,
                 gitVars, existingPr, netVars, listed>>

\* new AIService(config), then gitService.isGitRepository()
CheckGit ==
  /\ pc = "checkGit"
  /\ width' = LimiterWidth(config)
  /\ \E g \in BOOLEAN :
       /\ repo => g
       /\ IF g
          THEN pc' = "listStaged" /\ UNCHANGED <<exitCode, err>>
          ELSE Exit1(<<"Not a git repository">>)
  /\ UNCHANGED <<cfgVars, config, repo, reported, stagedFiles, genVars,
                 commitMessages, branchName, gitVars, existingPr, netVars, listed>>

\* generateCommitMessage's `feat: update ${file.path}`
FallbackMessage(path) == <<"feat", ":", " ", "update", " ", path>>

\* response.choices[0]?.message.content.trim() || fallback
FullMessage(path, content) ==
  IF content = {} THEN FallbackMessage(path)
  ELSE LET t == trim(CHOOSE c \in content : TRUE)
       IN IF t = <<>> THEN FallbackMessage(path) ELSE t

\* generateCommitMessage, lines 91-112: the CommitMessage built from a 2xx
\* response.  file is the path the prompt was built for.
CommitMessageOf(path, content) ==
  LET fullMessage == FullMessage(path, content)
      match == ConventionalMatch(fullMessage)
      m == CHOOSE x \in match : TRUE
  IN [file      |-> path,
      type      |-> IF match # {} THEN m.type ELSE <<"feat">>,
      scope     |-> IF match # {} THEN m.scope ELSE {},
      subject   |-> IF match # {} THEN m.subject ELSE fullMessage,
      formatted |-> fullMessage]

\* The empty check left out.
NeverEmpty(list) == FALSE

\* stagedFiles.length === 0
NoStagedFiles(list) == Len(list) = 0

\* gitService.getStagedFiles() and the empty check
ListStaged ==
  /\ pc = "listStaged"
  /\ listed' = TRUE
  /\ \/ /\ Exit1(<<"Failed to get staged files: ">>)
        /\ UNCHANGED <<stagedFiles, index>>
     \/ \E l \in StagedLists :
          IF NoStagedFiles(l)
          THEN /\ Exit1(<<"No staged files found">>)
               /\ UNCHANGED <<stagedFiles, index>>
          ELSE /\ stagedFiles' = l
               /\ index' = Range(l)
               /\ pc' = "diff"
               /\ UNCHANGED <<exitCode, err>>
  /\ UNCHANGED <<cfgVars, runVars, genVars, commitMessages, branchName, branches,
                 currentBranch, created, commits, pushed, unstageCalled, existingPr,
                 netVars>>

\* stagedFiles.map(getDiffForFile), then generateCommitMessagesInParallel's
\* filesWithDiffs.map(generateCommitMessage): every generation enters the
\* limiter's queue in list order.
StartGeneration ==
  /\ pc = "diff"
  /\ \/ /\ Exit1(<<"Failed to get diff for file ">>)
        /\ UNCHANGED queue
     \/ /\ queue' = [i \in 1..Len(stagedFiles) |-> i]
        /\ pc' = "generating"
        /\ UNCHANGED <<exitCode, err>>
  /\ UNCHANGED <<cfgVars, runVars, stagedFiles, inflight, results, failedGen,
                 doneOrder, genErr, outOfOrder, commitMessages, branchName,
                 gitVars, existingPr, netVars, listed>>

\* A limiter that keeps one of its slots back.
LimiterKeepsOneBack == Cardinality(inflight) < width - 1

\* The limiter admits a queued generation while fewer than `width` run.
LimiterAdmits == Cardinality(inflight) < width

\* p-limit starts the head of its queue: generateCommitMessage's callback runs
\* up to makeOpenRouterRequest's fetch, or throws there without a key.
LimitStart ==
  /\ pc = "generating"
  /\ queue # <<>>
  /\ LimiterAdmits
  /\ LET i == Head(queue) IN
       /\ queue' = Tail(queue)
       /\ IF ApiKeyMissing(config)
          THEN /\ failedGen' = failedGen \cup {i}
               /\ genErr' = IF genErr = {} THEN {KeyError} ELSE genErr
               /\ UNCHANGED <<inflight, llmIssued>>
          ELSE /\ inflight' = inflight \cup {i}
               /\ llmIssued' = llmIssued \cup
                    {[kind |-> "commit", file |-> stagedFiles[i],
                      model |-> ModelFor("commit", config)]}
               /\ UNCHANGED <<failedGen, genErr>>
  /\ UNCHANGED <<cfgVars, runVars, pc, exitCode, err, stagedFiles, results,
                 doneOrder, outOfOrder, commitMessages, branchName, gitVars,
                 existingPr, hosting, lookupOutcome, listed>>

\* The response to generation i's request arrives (or the request fails).
\* A response is delivered by the event loop once no continuation is ready,
\* so the limiter has started what it admits before any response is handled.
HttpComplete ==
  /\ pc = "generating"
  /\ ~(queue # <<>> /\ LimiterAdmits)
  /\ \E i \in inflight :
       /\ inflight' = inflight \ {i}
       /\ \/ \E content \in Replies :
               /\ results' = (i :> CommitMessageOf(stagedFiles[i], content)) @@ results
               /\ doneOrder' = Append(doneOrder, i)
               /\ UNCHANGED <<failedGen, genErr>>
          \/ \E kind \in HttpFailures :
               /\ failedGen' = failedGen \cup {i}
               /\ genErr' = IF genErr = {} THEN {HttpError(kind)} ELSE genErr
               /\ UNCHANGED <<results, doneOrder>>
  /\ UNCHANGED <<cfgVars, runVars, pc, exitCode, err, stagedFiles, queue,
                 outOfOrder, commitMessages, branchName, gitVars, existingPr,
                 netVars, listed>>

\* The fulfilment values collected as they arrive.
PromiseAllByCompletion(res, order) == [i \in 1..Len(order) |-> res[order[i]]]

\* Promise.all(promises): the fulfilment values in the order of the promises.
PromiseAll(res, order) == [i \in 1..Len(order) |-> res[i]]

\* generateCommitMessagesInParallel's catch
GenerationError(e) == <<"Failed to generate commit messages: ">> \o ErrorText(e)

\* Either command going on to the branch step.
AfterGenerationAlwaysBranch(cmd) == "branch"

\* Where a command goes once its commit messages are there.
AfterGeneration(cmd) == IF cmd = "workflow" THEN "branch" ELSE "unstage"

\* The generations awaited one by one to the last, the fulfilled ones kept.
SettleWhenAllSettled ==
  /\ pc = "generating"
  /\ options.cmd \in Commands
  /\ queue = <<>>
  /\ inflight = {}
  /\ commitMessages' = [i \in 1..Len(doneOrder) |-> results[doneOrder[i]]]
  /\ pc' = AfterGeneration(options.cmd)
  /\ UNCHANGED <<exitCode, err, doneOrder, outOfOrder>>
  /\ UNCHANGED <<cfgVars, runVars, stagedFiles, queue, inflight, results,
                 failedGen, genErr, branchName, gitVars, existingPr, netVars, listed>>

\* `await Promise.all(promises)` settles: rejected by the first failure, which
\* the command's catch turns into exit 1, or fulfilled once every generation is.
Settle ==
  /\ pc = "generating"
  /\ options.cmd \in Commands
  /\ \/ /\ failedGen # {}
        /\ Exit1(GenerationError(CHOOSE e \in genErr : TRUE))
        /\ UNCHANGED <<commitMessages, doneOrder, outOfOrder>>
     \/ /\ failedGen = {}
        /\ Len(doneOrder) = Len(stagedFiles)
        /\ commitMessages' = PromiseAll(results, doneOrder)
        /\ outOfOrder' = (doneOrder # [i \in 1..Len(doneOrder) |-> i])
        /\ doneOrder' = <<>>
        /\ pc' = AfterGeneration(options.cmd)
        /\ UNCHANGED <<exitCode, err>>
  /\ UNCHANGED <<cfgVars, runVars, stagedFiles, queue, inflight, results,
                 failedGen, genErr, branchName, gitVars, existingPr, netVars, listed>>

\* A success ends the process with status 0.
Exit0 ==
  /\ pc' = "exit"
  /\ exitCode' = {0}
  /\ err' = err

\* A non-empty string
Truthy(text) == text # {} /\ text # {<<>>}
TheText(text) == CHOOSE t \in text : TRUE

\* The branch step generating a name whenever the given one cannot be created.
BranchDecisionGenerateIfExists(branch, existing) ==
  IF Truthy(branch) /\ TheText(branch) \notin existing THEN "create" ELSE "generate"

\* handleWorkflow lines 76-88: what the branch step does with options.branch.
BranchDecision(branch, existing) ==
  IF Truthy(branch) /\ TheText(branch) \notin existing THEN "create"
  ELSE IF ~Truthy(branch) THEN "generate"
  ELSE "keep"

\* GitService.createBranch: `git checkout -b`, which also switches.
createBranch(name) ==
  /\ branches' = branches \cup {name}
  /\ currentBranch' = name
  /\ created' = Append(created, name)

LlmRequest(kind) == [kind |-> kind, file |-> "", model |-> ModelFor(kind, config)]

\* Step 3 of handleWorkflow up to its first await.
ResolveBranch ==
  /\ pc = "branch"
  /\ LET d == BranchDecision(options.branch, branches) IN
       \/ /\ d = "create"
          /\ \/ /\ createBranch(TheText(options.branch))
                /\ branchName' = options.branch
                /\ pc' = "unstage"
                /\ UNCHANGED <<exitCode, err>>
             \/ /\ Exit1(<<"Failed to create branch ">>)
                /\ UNCHANGED <<branches, currentBranch, created, branchName>>
          /\ UNCHANGED llmIssued
       \/ /\ d = "generate"
          /\ IF ApiKeyMissing(config)
             THEN Exit1(KeyError) /\ UNCHANGED llmIssued
             ELSE /\ llmIssued' = llmIssued \cup {LlmRequest("branch")}
                  /\ pc' = "awaitBranchName"
                  /\ UNCHANGED <<exitCode, err>>
          /\ UNCHANGED <<branches, currentBranch, created, branchName>>
       \/ /\ d = "keep"
          /\ branchName' = options.branch
          /\ pc' = "unstage"
          /\ UNCHANGED <<exitCode, err, branches, currentBranch, created, llmIssued>>
  /\ UNCHANGED <<cfgVars, runVars, stagedFiles, genVars, commitMessages, index,
                 commits, pushed, unstageCalled, existingPr, hosting,
                 lookupOutcome, listed>>

\* generateBranchName: response.choices[0]?.message.content.trim() || default
BranchNameOf(content) ==
  IF content = {} THEN DefaultBranch
  ELSE LET t == trim(TheText(content)) IN IF t = <<>> THEN DefaultBranch ELSE t

\* generateBranchName's response arrives; the generated branch is created when
\* it does not exist.
BranchNameResponse ==
  /\ pc = "awaitBranchName"
  /\ options.cmd = "workflow"
  /\ \/ \E kind \in HttpFailures :
          /\ Exit1(HttpError(kind))
          /\ UNCHANGED <<branches, currentBranch, created, branchName>>
     \/ \E content \in BranchReplies :
          LET name == BranchNameOf(content) IN
          IF name \notin branches
          THEN \/ /\ createBranch(name)
                  /\ branchName' = {name}
                  /\ pc' = "unstage"
                  /\ UNCHANGED <<exitCode, err>>
               \/ /\ Exit1(<<"Failed to create branch ">>)
                  /\ UNCHANGED <<branches, currentBranch, created, branchName>>
          ELSE /\ branchName' = {name}
               /\ pc' = "unstage"
               /\ UNCHANGED <<exitCode, err, branches, currentBranch, created>>
  /\ UNCHANGED <<cfgVars, runVars, stagedFiles, genVars, commitMessages, index,
                 commits, pushed, unstageCalled, existingPr, netVars, listed>>

\* gitService.unstageAllFiles() inside its own try: a failure is only logged.
Unstage ==
  /\ pc = "unstage"
  /\ unstageCalled' = TRUE
  /\ \/ index' = {}
     \/ index' = index
  /\ pc' = "commit"
  /\ UNCHANGED <<cfgVars, runVars, exitCode, err, stagedFiles, genVars,
                 commitMessages, branchName, branches, currentBranch, created,
                 commits, pushed, existingPr, netVars, listed>>

\* The files whose change a commit of this run already recorded.
Committed == UNION {commits[j].files : j \in 1..Len(commits)}

\* What `git add path` leaves in the index: what was staged, and path's change
\* unless a commit already recorded it.
IndexAfterAdd(path) == index \cup ({path} \ Committed)

\* One turn of the commit loop: stageAndCommitFile(file.path, message.formatted)
\* with file = stagedFiles[i] and message = commitMessages[i].  `git commit`
\* records the whole index and fails when there is nothing in it.
CommitNext ==
  /\ pc = "commit"
  /\ Len(commits) < Len(commitMessages)
  /\ LET i == Len(commits) + 1
         path == stagedFiles[i]
         message == commitMessages[i]
     IN \/ /\ IndexAfterAdd(path) # {}
           /\ commits' = Append(commits, [path    |-> path,
                                          message |-> message.formatted,
                                          msgFile |-> message.file,
                                          files   |-> IndexAfterAdd(path),
                                          branch  |-> currentBranch])
           /\ index' = {}
           /\ UNCHANGED <<pc, exitCode, err>>
        \/ /\ Exit1(<<"Failed to stage and commit file ">>)
           /\ \/ index' = index
              \/ index' = IndexAfterAdd(path)
           /\ UNCHANGED commits
  /\ UNCHANGED <<cfgVars, runVars, stagedFiles, genVars, commitMessages,
                 branchName, branches, currentBranch, created, pushed,
                 unstageCalled, existingPr, netVars, listed>>

\* The loop left for the push at any turn.
CommitsDoneEarly ==
  /\ pc = "commit"
  /\ IF options.cmd = "workflow" \/ options.push
     THEN pc' = "push" /\ UNCHANGED <<exitCode, err>>
     ELSE Exit0
  /\ UNCHANGED <<cfgVars, runVars, stagedFiles, genVars, commitMessages,
                 branchName, gitVars, existingPr, netVars, listed>>

\* The commit loop is over: the workflow pushes, the commit command pushes
\* with --push and is done without.
CommitsDone ==
  /\ pc = "commit"
  /\ Len(commits) = Len(commitMessages)
  /\ IF options.cmd = "workflow" \/ options.push
     THEN pc' = "push" /\ UNCHANGED <<exitCode, err>>
     ELSE Exit0
  /\ UNCHANGED <<cfgVars, runVars, stagedFiles, genVars, commitMessages,
                 branchName, gitVars, existingPr, netVars, listed>>

\* The branch either command pushes.
PushTarget == IF options.cmd = "workflow" THEN TheText(branchName) ELSE currentBranch

\* The PR step taken whatever --no-pr says.
WantsPrIgnoringNoPr == ~MissingKey(config, "githubToken")

\* !options.noPr && config.githubToken
WantsPr == ~options.noPr /\ ~MissingKey(config, "githubToken")

\* gitService.pushBranch (after getCurrentBranch in the commit command)
Push ==
  /\ pc = "push"
  /\ \/ /\ pushed' = Append(pushed, PushTarget)
        /\ IF options.cmd = "workflow" /\ WantsPr
           THEN pc' = "pr" /\ UNCHANGED <<exitCode, err>>
           ELSE Exit0
     \/ /\ Exit1(<<"Failed to push branch ">>)
        /\ UNCHANGED pushed
  /\ UNCHANGED <<cfgVars, runVars, stagedFiles, genVars, commitMessages,
                 branchName, index, branches, currentBranch, created, commits,
                 unstageCalled, existingPr, netVars, listed>>

\* Step 6 up to its first await: getCommits, then findExistingPR's request.
StartPr ==
  /\ pc = "pr"
  /\ \/ /\ hosting' = Append(hosting, "findExistingPR")
        /\ pc' = "awaitLookup"
        /\ UNCHANGED <<exitCode, err>>
     \/ /\ Exit1(<<"Failed to get commits: ">>)
        /\ UNCHANGED hosting
  /\ UNCHANGED <<cfgVars, runVars, stagedFiles, genVars, commitMessages,
                 branchName, gitVars, existingPr, llmIssued, lookupOutcome, listed>>

\* How the lookup's round trip ends: an open PR listed, none listed, a
\* non-2xx status, no response.
LookupOutcomes == {"found", "none", "status", "network"}

\* findExistingPR without its catch: a failed round trip propagates.
findExistingPRThrowing(outcome) ==
  IF outcome = "found" THEN "pr" ELSE IF outcome = "none" THEN "null" ELSE "throw"

\* GitHubService.findExistingPR: prs[0] or null, and null from its own catch.
findExistingPR(outcome) ==
  IF outcome = "found" THEN "pr" ELSE "null"

\* findExistingPR returns; generatePRDescription sends its request.
LookupResponse ==
  /\ pc = "awaitLookup"
  /\ \E outcome \in LookupOutcomes :
       LET r == findExistingPR(outcome) IN
       /\ lookupOutcome' = {outcome}
       /\ IF r = "throw"
          THEN /\ Exit1(<<"GitHub API error: ">>)
               /\ UNCHANGED <<existingPr, llmIssued>>
          ELSE /\ existingPr' = {r}
               /\ IF ApiKeyMissing(config)
                  THEN Exit1(KeyError) /\ UNCHANGED llmIssued
                  ELSE /\ llmIssued' = llmIssued \cup {LlmRequest("pr")}
                       /\ pc' = "awaitDescription"
                       /\ UNCHANGED <<exitCode, err>>
  /\ UNCHANGED <<cfgVars, runVars, stagedFiles, genVars, commitMessages,
                 branchName, gitVars, hosting, listed>>

\* The request the workflow sends once it has the description.
PrCall(existing) ==
  IF existing = {"pr"} THEN "updatePullRequest" ELSE "createPullRequest"

\* generatePRDescription's response arrives; update or create is requested.
DescriptionResponse ==
  /\ pc = "awaitDescription"
  /\ options.cmd = "workflow"
  /\ \/ /\ hosting' = Append(hosting, PrCall(existingPr))
        /\ pc' = "awaitPr"
        /\ UNCHANGED <<exitCode, err>>
     \/ \E kind \in HttpFailures :
          /\ Exit1(HttpError(kind))
          /\ UNCHANGED hosting
  /\ UNCHANGED <<cfgVars, runVars, stagedFiles, genVars, commitMessages,
                 branchName, gitVars, existingPr, llmIssued, lookupOutcome, listed>>

\* createPullRequest / updatePullRequest returns or throws.
PrResponse ==
  /\ pc = "awaitPr"
  /\ \/ Exit0
     \/ Exit1(<<"Failed to create or update pull request: ">>)
  /\ UNCHANGED <<cfgVars, runVars, stagedFiles, genVars, commitMessages,
                 branchName, gitVars, existingPr, netVars, listed>>

Next ==
  \/ LoadConfig
  \/ CheckGit
  \/ ListStaged
  \/ StartGeneration
  \/ LimitStart
  \/ HttpComplete
  \/ Settle
  \/ ResolveBranch
  \/ BranchNameResponse
  \/ Unstage
  \/ CommitNext
  \/ CommitsDone
  \/ Push
  \/ StartPr
  \/ LookupResponse
  \/ DescriptionResponse
  \/ PrResponse

Spec == Init /\ [][Next]_vars

\* The steps a command takes by itself: synchronous code, subprocesses it
\* waits for, and the continuation of a settled promise.
LocalStep ==
  \/ LoadConfig
  \/ CheckGit
  \/ ListStaged
  \/ StartGeneration
  \/ Settle
  \/ ResolveBranch
  \/ Unstage
  \/ CommitNext
  \/ CommitsDone
  \/ Push
  \/ StartPr

\* The event loop runs what is ready: the command's own steps and the
\* limiter's next start; and every request sent to the language-model service
\* gets its response or its failure.  Nothing is assumed of the hosting
\* service's replies (LookupResponse, PrResponse).
Fairness ==
  /\ WF_vars(LocalStep \/ LimitStart)
  /\ WF_vars(HttpComplete \/ BranchNameResponse \/ DescriptionResponse)

\* The runs whose progress is examined: any options, any stored keys and
\* limiter width, the default model, and either no other branch or both.
InitLive ==
  /\ Init
  /\ "defaultModel" \notin DOMAIN stored
  /\ branches \in {{Main}, {Main, Supplied, Generated}}

SpecLive == InitLive /\ [][Next]_vars /\ Fairness

\* --------------------------------------------- the AIService called directly
\* The public methods of AIService, called as the tests call them: on a Config
\* of the caller's own, with or without an API key.
AiOps == {"generateCommitMessage", "generateCommitMessagesInParallel",
          "generateBranchName", "generatePRDescription"}
GenerationOps == {"generateCommitMessage", "generateCommitMessagesInParallel"}

\* The file lists a call is given: one file, or the non-empty list a command
\* passes on.
CallLists(op) ==
  IF op = "generateCommitMessage" THEN {l \in StagedLists : Len(l) = 1}
  ELSE IF op = "generateCommitMessagesInParallel" THEN {l \in StagedLists : Len(l) >= 1}
  ELSE {<<>>}

InitAI ==
  /\ stored \in StoredConfigs
  /\ config = stored
  /\ options \in {[cmd |-> op, branch |-> {}, noPr |-> FALSE, push |-> FALSE] : op \in AiOps}
  /\ width = LimiterWidth(config)
  /\ stagedFiles \in CallLists(options.cmd)
  /\ branches = {Main}
  /\ pc = "call"
  /\ InitRest
  /\ ConfigIdle

\* The synchronous part of the call: the generations enter the limiter's
\* queue, or makeOpenRouterRequest runs up to its fetch.
AICall ==
  /\ pc = "call"
  /\ IF options.cmd \in GenerationOps
     THEN /\ queue' = [i \in 1..Len(stagedFiles) |-> i]
          /\ pc' = "generating"
          /\ UNCHANGED <<err, llmIssued>>
     ELSE /\ IF ApiKeyMissing(config)
             THEN pc' = "rejected" /\ err' = KeyError /\ UNCHANGED llmIssued
             ELSE /\ pc' = "awaitDirect"
                  /\ llmIssued' = llmIssued \cup
                       {LlmRequest(IF options.cmd = "generateBranchName" THEN "branch" ELSE "pr")}
                  /\ UNCHANGED err
          /\ UNCHANGED queue
  /\ UNCHANGED <<cfgVars, runVars, exitCode, stagedFiles, inflight, results,
                 failedGen, doneOrder, genErr, outOfOrder, commitMessages,
                 branchName, gitVars, existingPr, hosting, lookupOutcome, listed>>

\* The promise the call returned settles: generateCommitMessage rejects with
\* the request's own error, generateCommitMessagesInParallel with its wrapper.
SettleDirect ==
  /\ pc = "generating"
  /\ options.cmd \in GenerationOps
  /\ \/ /\ failedGen # {}
        /\ pc' = "rejected"
        /\ err' = IF options.cmd = "generateCommitMessage"
                  THEN CHOOSE e \in genErr : TRUE
                  ELSE GenerationError(CHOOSE e \in genErr : TRUE)
        /\ UNCHANGED <<commitMessages, doneOrder, outOfOrder>>
     \/ /\ failedGen = {}
        /\ Len(doneOrder) = Len(stagedFiles)
        /\ commitMessages' = PromiseAll(results, doneOrder)
        /\ outOfOrder' = (doneOrder # [i \in 1..Len(doneOrder) |-> i])
        /\ doneOrder' = <<>>
        /\ pc' = "returned"
        /\ UNCHANGED err
  /\ UNCHANGED <<cfgVars, runVars, exitCode, stagedFiles, queue, inflight,
                 results, failedGen, genErr, branchName, gitVars, existingPr,
                 netVars, listed>>

\* The response to generateBranchName's or generatePRDescription's request.
DirectResponse ==
  /\ pc = "awaitDirect"
  /\ \/ \E kind \in HttpFailures :
          /\ pc' = "rejected"
          /\ err' = HttpError(kind)
          /\ UNCHANGED branchName
     \/ \E content \in BranchReplies :
          /\ pc' = "returned"
          /\ branchName' = IF options.cmd = "generateBranchName"
                           THEN {BranchNameOf(content)} ELSE branchName
          /\ UNCHANGED err
  /\ UNCHANGED <<cfgVars, runVars, exitCode, stagedFiles, genVars,
                 commitMessages, gitVars, existingPr, netVars, listed>>

NextAI ==
  \/ AICall
  \/ LimitStart
  \/ HttpComplete
  \/ SettleDirect
  \/ DirectResponse

SpecAI == InitAI /\ [][NextAI]_vars

\* ------------------------------------------------------ the config command
\* Here a string is the sequence of its characters, and a value is what a
\* JavaScript variable or a JSON document holds: a string, a number, NaN, null.
Chars == <<"a", "b", "c", "d", "e", "f", "g", "h", "i", "j", "k", "l">>
Digits == <<"0", "1", "2", "3", "4", "5", "6", "7", "8", "9">>

\* maskValue: value.length > 8
MaskThreshold == 8
\* maskValue: slice(0, 4) and slice(-4)
MaskEdge == 4
\* The longest secret typed in.
MaxSecretLen == 10

Str(s) == [kind |-> "string", text |-> s, num |-> 0]
Num(n) == [kind |-> "number", text |-> <<>>, num |-> n]
NaN == [kind |-> "NaN", text |-> <<>>, num |-> 0]
Null == [kind |-> "null", text |-> <<>>, num |-> 0]

IsDigit(c) == \E i \in 1..Len(Digits) : Digits[i] = c
DigitValue(c) == (CHOOSE i \in 1..Len(Digits) : Digits[i] = c) - 1

RECURSIVE DigitRun(_)
\* Length of the longest prefix of digits.
DigitRun(s) == IF s # <<>> /\ IsDigit(Head(s)) THEN 1 + DigitRun(Tail(s)) ELSE 0

RECURSIVE DigitsValue(_)
\* The number a sequence of digits writes in base 10.
DigitsValue(s) ==
  IF s = <<>> THEN 0
  ELSE 10 * DigitsValue(SubSeq(s, 1, Len(s) - 1)) + DigitValue(s[Len(s)])

\* parseInt(s, 10) of an unsigned input: the leading digits, NaN without any.
parseInt(s) ==
  LET u == DropSpace(s)
      k == DigitRun(u)
  IN IF k = 0 THEN NaN ELSE Num(DigitsValue(Take(u, k)))

RECURSIVE NumText(_)
\* String(n) for n >= 0
NumText(n) ==
  IF n < 10 THEN <<Digits[n + 1]>>
  ELSE NumText(n \div 10) \o <<Digits[(n % 10) + 1]>>

\* String(value), `${value}`
ToText(value) ==
  IF value.kind = "string" THEN value.text
  ELSE IF value.kind = "number" THEN NumText(value.num)
  ELSE IF value.kind = "NaN" THEN <<"NaN">>
  ELSE <<"null">>

\* JSON.stringify then JSON.parse of one value: NaN is written as null.
JsonValue(value) == IF value.kind = "NaN" THEN Null ELSE value

\* ------------------------------------------------------------------ inputs
KnownKeys == <<"openRouterApiKey", "githubToken", "defaultModel", "maxConcurrency">>
\* --key takes any name
SetKeys == Range(KnownKeys) \cup {"extra"}
\* The keys of SetKeys whose lower-cased name holds "token" or "key".
SecretKeys == {"openRouterApiKey", "githubToken"}
IsSecretKey(key) == key \in SecretKeys

SecretOf(n) == [i \in 1..n |-> Chars[i]]
SecretInputs == {SecretOf(MaskThreshold), SecretOf(MaskThreshold + 1), SecretOf(MaxSecretLen)}
\* Two of the setup wizard's five choices, each name one lexeme.
ModelChoices == { <<"google/gemini-flash-2.5">>, <<"openai/gpt-4o">> }
NumberInputs == { <<"0">>, <<"5">>, <<"1", "1">>, <<"x">> }
\* What is typed for a key, on the command line or at a prompt.
InputsFor(key) ==
  IF IsSecretKey(key) THEN SecretInputs
  ELSE IF key = "defaultModel" THEN ModelChoices
  ELSE IF key = "maxConcurrency" THEN NumberInputs
  ELSE {<<"x">>}
\* What the wizard's number prompt may hand to its validate: the ends of the
\* accepted range and their neighbours.
SetupNumbers == {0, 1, 10, 11}

\* A file whose text JSON.parse rejects, though it spells out entries.
DamagedFile ==
  [valid |-> FALSE,
   entries |-> ("githubToken" :> Str(SecretOf(MaskThreshold + 1))) @@
               ("extra" :> Str(<<"x">>)) @@ NoConfig]

\* ----------------------------------------------------------- ConfigManager
\* ConfigManager.getConfig: the parsed file, {} when it cannot be parsed.
getConfig(f) == IF f.valid THEN f.entries ELSE NoConfig

\* ConfigManager.setConfig: the file written, the whole object serialised anew.
setConfig(f, key, value) ==
  LET parsed == getConfig(f)
  IN [valid |-> TRUE,
      entries |-> [k \in DOMAIN parsed \cup {key} |->
                     JsonValue(IF k = key THEN value ELSE parsed[k])]]

\* ConfigManager.getConfigValue: config[key], {} for undefined.
getConfigValue(f, key) ==
  IF key \in DOMAIN getConfig(f) THEN {getConfig(f)[key]} ELSE {}

\* `${value.slice(0, 4)}...${value.slice(-4)}`
MaskText(s) ==
  Take(s, MaskEdge) \o <<"...">> \o SubSeq(s, Len(s) - MaskEdge + 1, Len(s))

IsLongString(value) == value.kind = "string" /\ Len(value.text) > MaskThreshold

\* The value printed as it is.
maskValueShowingAll(key, value) == ToText(value)

\* ConfigManager.maskValue
maskValue(key, value) ==
  IF IsSecretKey(key)
  THEN IF IsLongString(value) THEN MaskText(value.text) ELSE <<"[SET]">>
  ELSE ToText(value)

\* handleConfigGet's displayValue
displayValue(key, value) ==
  IF IsSecretKey(key) /\ IsLongString(value) THEN MaskText(value.text)
  ELSE ToText(value)

\* A printed value: the key, the value it stands for, the text shown.
Line(key, value, text) == [key |-> key, value |-> value, text |-> text]

\* The validate of handleConfigSet's value prompt.
ValidInput(key, input) ==
  /\ trim(input) # <<>>
  /\ key = "maxConcurrency" =>
       LET n == parseInt(input)
       IN n.kind = "number" /\ n.num >= 1 /\ n.num <= 10

\* The validate of the wizard's number prompt.
ValidSetupNumber(n) == ~(n < 1 \/ n > 10)

\* Neither command state nor run state: what a config command leaves alone.
runState == <<stored, options, pc, exitCode, err, runVars, stagedFiles, genVars,
              commitMessages, branchName, gitVars, existingPr, netVars, listed>>

InitConfig ==
  /\ stored = NoConfig
  /\ options = [cmd |-> "config", branch |-> {}, noPr |-> FALSE, push |-> FALSE]
  /\ config = NoConfig
  /\ branches = {Main}
  /\ pc = "config"
  /\ width = 0
  /\ stagedFiles = <<>>
  /\ InitRest
  /\ file \in {EmptyFile, DamagedFile}
  /\ shown = {}
  /\ got = {}
  /\ written = NoConfig
  /\ lastOp = NoOp

\* handleConfigSet: key and value from the command line or from a prompt (the
\* value prompt validates, the command line does not), then setConfig and its
\* confirmation.
ConfigSet ==
  /\ pc = "config"
  /\ \E key \in SetKeys, prompted \in BOOLEAN :
       \E input \in InputsFor(key) :
         /\ prompted => ValidInput(key, input)
         /\ LET finalValue == IF key = "maxConcurrency" THEN parseInt(input)
                              ELSE Str(input)
            IN /\ file' = setConfig(file, key, finalValue)
               /\ shown' = {Line(key, finalValue, maskValue(key, finalValue))}
               /\ written' = (key :> finalValue) @@ written
               /\ lastOp' = [op |-> "set", key |-> key, value |-> input]
  /\ got' = {}
  /\ UNCHANGED runState

\* handleConfigGet: usage without a key, else the value or "is not set".
ConfigGet ==
  /\ pc = "config"
  /\ \/ /\ got' = {}
        /\ shown' = {}
        /\ lastOp' = [op |-> "get", key |-> "", value |-> <<>>]
     \/ \E key \in SetKeys :
          LET value == getConfigValue(file, key) IN
          /\ got' = value
          /\ shown' = {Line(key, v, displayValue(key, v)) : v \in value}
          /\ lastOp' = [op |-> "get", key |-> key, value |-> <<>>]
  /\ UNCHANGED <<file, written>>
  /\ UNCHANGED runState

\* ConfigManager.listConfig
ConfigList ==
  /\ pc = "config"
  /\ LET parsed == getConfig(file)
     IN shown' = {Line(k, parsed[k], maskValue(k, parsed[k])) : k \in DOMAIN parsed}
  /\ got' = {}
  /\ lastOp' = [op |-> "list", key |-> "", value |-> <<>>]
  /\ UNCHANGED <<file, written>>
  /\ UNCHANGED runState

\* handleConfigSetup: four validated prompts, then four setConfig calls.
ConfigSetup ==
  /\ pc = "config"
  /\ \E a \in SecretInputs, g \in SecretInputs, m \in ModelChoices, n \in SetupNumbers :
       /\ trim(a) # <<>>
       /\ trim(g) # <<>>
       /\ ValidSetupNumber(n)
       /\ file' = setConfig(setConfig(setConfig(setConfig(file,
                     "openRouterApiKey", Str(a)),
                     "githubToken", Str(g)),
                     "defaultModel", Str(m)),
                     "maxConcurrency", Num(n))
       /\ shown' = { Line("openRouterApiKey", Str(a), maskValue("openRouterApiKey", Str(a))),
                     Line("githubToken", Str(g), maskValue("githubToken", Str(g))),
                     Line("defaultModel", Str(m), maskValue("defaultModel", Str(m))),
                     Line("maxConcurrency", Num(n), maskValue("maxConcurrency", Num(n))) }
       /\ written' = ("openRouterApiKey" :> Str(a)) @@ ("githubToken" :> Str(g)) @@
                     ("defaultModel" :> Str(m)) @@ ("maxConcurrency" :> Num(n)) @@ written
  /\ got' = {}
  /\ lastOp' = [op |-> "setup", key |-> "", value |-> <<>>]
  /\ UNCHANGED runState

NextConfig ==
  \/ ConfigSet
  \/ ConfigGet
  \/ ConfigList
  \/ ConfigSetup

SpecConfig == InitConfig /\ [][NextConfig]_vars

\* ------------------------------------------------------------- properties
NoGitEffect ==
  /\ ~unstageCalled
  /\ commits = <<>>
  /\ created = <<>>
  /\ pushed = <<>>
NoNetwork == llmIssued = {} /\ hosting = <<>>
IsCommand == options.cmd \in Commands
Calls(name) == Cardinality({i \in 1..Len(hosting) : hosting[i] = name})
PrCalls == Calls("createPullRequest") + Calls("updatePullRequest")

\* C1: in both commands, whatever order the generations complete in, the k-th
\* commit is of the k-th staged file and carries the message generated for
\* that file, and a run that succeeds has made one commit per staged file.
C1_CommitsInListOrder ==
  IsCommand =>
    /\ \A k \in 1..Len(commits) :
         /\ k <= Len(stagedFiles)
         /\ commits[k].path = stagedFiles[k]
         /\ commits[k].msgFile = stagedFiles[k]
         /\ k \in DOMAIN results
         /\ commits[k].message = results[k].formatted
    /\ exitCode = {0} => Len(commits) = Len(stagedFiles)

\* C1 witness: a run that made its commits, one per file, after the
\* generations completed out of order.
C1_Witness ==
  /\ IsCommand
  /\ outOfOrder
  /\ Len(commits) >= 2
  /\ exitCode = {0}

\* The maxConcurrency the config file holds, 3 when it holds none.
ConfiguredConcurrency ==
  IF "maxConcurrency" \in DOMAIN stored THEN stored["maxConcurrency"] ELSE 3

\* C2: while the commit messages are generated, the requests in flight to the
\* language-model service never outnumber the configured maxConcurrency (3
\* when none is configured).
C2_InFlightWithinConfigured ==
  IsCommand /\ pc = "generating" => Cardinality(inflight) <= ConfiguredConcurrency

\* The limiter itself holds its width: never more requests in flight than
\* pLimit was given.
InFlightWithinLimiter ==
  pc = "generating" => Cardinality(inflight) <= width

\* A commit line of the shape type(optional-scope): subject
ConventionalShape(text) == ConventionalMatch(text) # {}

\* generateCommitMessagesInParallel has resolved for a non-empty staged list.
MessagesGenerated ==
  /\ stagedFiles # <<>>
  /\ DOMAIN results = 1..Len(stagedFiles)
  /\ pc # "generating"

\* C3: once the messages of a non-empty staged list are generated there is one
\* per file, and each one's formatted text has the conventional-commit shape
\* or is the fixed default.
C3_MessagesConventionalOrDefault ==
  IsCommand /\ MessagesGenerated =>
    /\ Len(commitMessages) = Len(stagedFiles)
    /\ \A i \in 1..Len(commitMessages) :
         \/ ConventionalShape(commitMessages[i].formatted)
         \/ commitMessages[i].formatted = FallbackMessage(stagedFiles[i])

C5_EmptyStagedAborts ==
  IsCommand /\ listed /\ stagedFiles = <<>> =>
    /\ pc = "exit"
    /\ exitCode = {1}
    /\ NoNetwork
    /\ NoGitEffect

\* C5 witness: the commit command ended on an empty staged list.
C5_Witness ==
  /\ options.cmd = "commit"
  /\ listed
  /\ err = <<"No staged files found">>

\* The required keys the config file lacks.
MissingRequired == {k \in {"openRouterApiKey", "githubToken"} : MissingKey(stored, k)}

\* C6: when a required key is absent or empty, either command reports exactly
\* the missing key names and ends with a non-zero status, before it lists
\* staged files, sends any request, or touches the index, a commit, a branch
\* or the remote.
C6_MissingKeysAbortFirst ==
  IsCommand /\ pc # "start" /\ MissingRequired # {} =>
    /\ pc = "exit"
    /\ exitCode = {1}
    /\ \E names \in reported :
         /\ Range(names) = MissingRequired
         /\ Len(names) = Cardinality(MissingRequired)
    /\ ~listed
    /\ index = {}
    /\ NoNetwork
    /\ NoGitEffect

\* C6 witness: a run ended reporting the hosting token alone.
C6_Witness ==
  /\ pc = "exit"
  /\ reported = {<<"githubToken">>}

RepoNotRecognized == <<"Not a git repository or repository not recognized">>

\* C7 as claimed: the commit command too aborts, before it lists staged
\* files, when the repository cannot be detected from the origin remote.
C7_CommitAbortsWithoutRepo ==
  options.cmd = "commit" /\ pc # "start" /\ ~repo =>
    /\ pc = "exit"
    /\ exitCode = {1}
    /\ ~listed

\* C7 amended: the workflow command aborts, before it lists staged files, when
\* the repository cannot be detected; the commit command never ends on that
\* check, and it lists staged files only with every required key present.
C7_OnlyWorkflowNeedsRepo ==
  /\ options.cmd = "workflow" /\ pc # "start" /\ ~repo =>
       /\ pc = "exit" /\ exitCode = {1} /\ ~listed
       /\ MissingRequired = {} => err = RepoNotRecognized
  /\ options.cmd = "commit" => err # RepoNotRecognized
  /\ options.cmd = "commit" /\ listed => MissingRequired = {}

\* C7 witness: the commit command committed with no repository detected.
C7_Witness ==
  /\ options.cmd = "commit"
  /\ ~repo
  /\ commits # <<>>

\* The branches that existed before the run created any.
ExistingBefore == branches \ Range(created)

\* What holds of a resolved branch: created and switched to when it was new,
\* otherwise left alone with the checked-out branch unchanged.
CreatedIfNew(name) ==
  IF name \in ExistingBefore
  THEN created = <<>> /\ currentBranch = Main
  ELSE created = <<name>> /\ currentBranch = name

\* C8 as claimed: the supplied name is the resolved branch only when it was
\* absent from the existing branches; in every other case, a supplied name
\* that exists included, a name was requested from the model.
C8_GeneratesWhenSuppliedExists ==
  options.cmd = "workflow" /\ branchName # {} =>
    /\ IF Truthy(options.branch) /\ TheText(options.branch) \notin ExistingBefore
       THEN branchName = options.branch /\ LlmRequest("branch") \notin llmIssued
       ELSE LlmRequest("branch") \in llmIssued
    /\ CreatedIfNew(TheText(branchName))

\* C8 amended: a supplied (non-empty) name is always the resolved branch and
\* no name is requested from the model; a name is generated only when none is
\* supplied; either way the resolved branch is created and switched to when it
\* is new, and neither created nor switched to when it exists.
C8_SuppliedNameAlwaysUsed ==
  options.cmd = "workflow" /\ branchName # {} =>
    /\ IF Truthy(options.branch)
       THEN branchName = options.branch /\ LlmRequest("branch") \notin llmIssued
       ELSE LlmRequest("branch") \in llmIssued
    /\ CreatedIfNew(TheText(branchName))

\* C8 witness: a supplied name that already exists was resolved as it is.
C8_Witness ==
  /\ options.cmd = "workflow"
  /\ branchName = {Supplied}
  /\ created = <<>>
  /\ currentBranch = Main
  /\ pc = "unstage"

\* What C9 says of every hosting request: only without --no-pr, with a token,
\* after a push; with --no-pr no PR description is requested either.
HostingOnlyWhenWanted ==
  /\ hosting # <<>> =>
       /\ options.cmd = "workflow"
       /\ ~options.noPr
       /\ ~MissingKey(stored, "githubToken")
       /\ pushed # <<>>
  /\ options.noPr \/ options.cmd = "commit" =>
       hosting = <<>> /\ LlmRequest("pr") \notin llmIssued

\* update if and only if the lookup returned an open PR
UpdateIffFound ==
  /\ Calls("updatePullRequest") > 0 => existingPr = {"pr"}
  /\ Calls("createPullRequest") > 0 => existingPr = {"null"}

\* C9 as claimed: a workflow run without --no-pr that pushed and looked the
\* PR up has, when it ends, invoked exactly one of createPullRequest and
\* updatePullRequest.
C9_ExactlyOnePrCallAfterPush ==
  /\ HostingOnlyWhenWanted
  /\ UpdateIffFound
  /\ options.cmd = "workflow" /\ ~options.noPr /\ pushed # <<>>
       /\ existingPr # {} /\ pc = "exit" => PrCalls = 1

\* C9 amended: at most one of the two is invoked, exactly one in a run that
\* ends with status 0, and none before the lookup has returned.
C9_AtMostOnePrCall ==
  /\ HostingOnlyWhenWanted
  /\ UpdateIffFound
  /\ PrCalls <= 1
  /\ PrCalls = 1 => existingPr # {} /\ hosting[1] = "findExistingPR" /\ Len(hosting) = 2
  /\ options.cmd = "workflow" /\ ~options.noPr /\ exitCode = {0} => PrCalls = 1

\* C9 witness: a run that found an open PR and updated it.
C9_Witness ==
  /\ exitCode = {0}
  /\ hosting = <<"findExistingPR", "updatePullRequest">>

LookupFailed == lookupOutcome \in {{"status"}, {"network"}}

StageCommitFailure == <<"Failed to stage and commit file ">>

\* C11: when the k-th per-file commit fails the run has ended with a non-zero
\* status, the commits of files 1..k-1 are still there in order, nothing was
\* pushed or sent to the hosting service, none of the files after the k-th is
\* staged again, and from then on no commit is made and nothing is pushed.
C11_FailedCommitKeepsEarlier ==
  /\ [](IsCommand /\ err = StageCommitFailure =>
         /\ pc = "exit"
         /\ exitCode = {1}
         /\ Len(commits) < Len(stagedFiles)
         /\ \A k \in 1..Len(commits) : commits[k].path = stagedFiles[k]
         /\ pushed = <<>>
         /\ hosting = <<>>
         /\ Len(commits) >= 1 => index \subseteq {stagedFiles[Len(commits) + 1]})
  /\ [][err = StageCommitFailure => UNCHANGED <<commits, index, pushed, hosting>>]_vars

\* C11 witness: the second of two commits failed and the first is still there.
C11_Witness ==
  /\ err = StageCommitFailure
  /\ Len(stagedFiles) = 2
  /\ Len(commits) = 1
  /\ commits[1].files = {stagedFiles[1]}

\* C12: the messages are there only once every generation has completed and
\* none has failed; once a generation has failed the call can reject at once,
\* whatever is still queued or in flight, no message is ever returned, and the
\* command ends with a non-zero status having created no branch, unstaged
\* nothing and committed nothing.
C12_AllOrNothing ==
  IsCommand =>
    /\ commitMessages # <<>> =>
         /\ failedGen = {}
         /\ queue = <<>>
         /\ inflight = {}
         /\ DOMAIN results = 1..Len(stagedFiles)
         /\ Len(commitMessages) = Len(stagedFiles)
    /\ failedGen # {} =>
         /\ commitMessages = <<>>
         /\ pc \in {"generating", "exit"}
         /\ pc = "generating" => ENABLED Settle
         /\ pc = "exit" =>
              exitCode = {1} /\ Contains(err, "Failed to generate commit messages: ")
         /\ NoGitEffect
         /\ currentBranch = Main
         /\ index = Range(stagedFiles)

\* C12 witness: the call rejected on one failure while another generation
\* was still in flight.
C12_Witness ==
  /\ IsCommand
  /\ pc = "exit"
  /\ failedGen # {}
  /\ inflight # {}

\* C13: the commit command creates no branch and stays on the checked-out
\* one, asks the model for commit messages only, sends nothing to the hosting
\* service, and pushes only with --push, only once every staged file has its
\* commit, and then the checked-out branch and nothing else.
C13_CommitCommandFrame ==
  options.cmd = "commit" =>
    /\ created = <<>>
    /\ branches = {Main}
    /\ currentBranch = Main
    /\ branchName = {}
    /\ \A r \in llmIssued : r.kind = "commit"
    /\ hosting = <<>>
    /\ existingPr = {}
    /\ pushed # <<>> =>
         /\ options.push
         /\ stagedFiles # <<>>
         /\ Len(commits) = Len(stagedFiles)
         /\ pushed = <<currentBranch>>
    /\ exitCode = {0} => (pushed # <<>> <=> options.push)

\* C13 witness: the commit command with --push committed and pushed.
C13_Witness ==
  /\ options.cmd = "commit"
  /\ options.push
  /\ commits # <<>>
  /\ pushed = <<Main>>
  /\ exitCode = {0}

\* The last command was `config get` of a key that setConfig was handed a
\* value for.
GotAfterSet == lastOp.op = "get" /\ lastOp.key \in DOMAIN written

\* C14: what `config set` hands to setConfig is the value typed, parseInt of
\* it for maxConcurrency, and a later getConfigValue of the key returns just
\* what setConfig was handed.
C14_SetThenGetRoundTrip ==
  /\ lastOp.op = "set" =>
       written[lastOp.key] = IF lastOp.key = "maxConcurrency"
                             THEN parseInt(lastOp.value) ELSE Str(lastOp.value)
  /\ GotAfterSet => got = {written[lastOp.key]}

\* The round trip of every value JSON can write: all but NaN.
RoundTripOfJsonValues ==
  GotAfterSet /\ written[lastOp.key] # NaN => got = {written[lastOp.key]}

\* The text shows the first and the last MaskEdge characters of secret around
\* an ellipsis, and none of the characters between them.
ShowsOnlyEdges(text, secret) ==
  /\ Len(text) = 2 * MaskEdge + 1
  /\ \A i \in 1..MaskEdge :
       /\ text[i] = secret[i]
       /\ text[MaskEdge + 1 + i] = secret[Len(secret) - MaskEdge + i]
  /\ text[MaskEdge + 1] = "..."
  /\ \A i \in (MaskEdge + 1)..(Len(secret) - MaskEdge) : ~Contains(text, secret[i])

\* C15: whatever config set, config setup, config get or config list prints
\* for a key whose name holds "token" or "key" and a string value longer than
\* 8 characters shows its first 4 and last 4 characters and none of the
\* middle ones, while the file holds the secret as it was typed.
C15_SecretsMaskedOnDisplay ==
  /\ \A l \in shown :
       IsSecretKey(l.key) /\ IsLongString(l.value) => ShowsOnlyEdges(l.text, l.value.text)
  /\ lastOp.op = "set" /\ IsSecretKey(lastOp.key) =>
       /\ file.entries[lastOp.key] = Str(lastOp.value)
       /\ \E l \in shown : l.key = lastOp.key /\ l.value = Str(lastOp.value)
  /\ \A k \in SecretKeys \cap DOMAIN written :
       file.valid /\ k \in DOMAIN file.entries /\ file.entries[k] = written[k]

\* C15 witness: config get printed a stored secret of the greatest length.
C15_Witness ==
  /\ lastOp = [op |-> "get", key |-> "githubToken", value |-> <<>>]
  /\ "githubToken" \in DOMAIN written
  /\ got = {Str(SecretOf(MaxSecretLen))}
  /\ \E l \in shown : Len(l.text) < Len(l.value.text)

InConfigurableRange(value) == value.kind = "number" /\ value.num >= 1 /\ value.num <= 10

\* C16: after any sequence of config commands the maxConcurrency the file
\* holds is a number from 1 to 10.
C16_StoredConcurrencyInRange ==
  \A value \in getConfigValue(file, "maxConcurrency") : InConfigurableRange(value)

\* What the wizard stores is in the range.
SetupStoresInRange ==
  lastOp.op = "setup" =>
    \A value \in getConfigValue(file, "maxConcurrency") : InConfigurableRange(value)

\* The run has its working configuration, and its limiter.
ConfigLoaded == IsCommand /\ pc # "start"
LimiterBuilt == IsCommand /\ pc \notin {"start", "checkGit"} /\ width # 0

\* The working configuration holds every stored value, and the limiter is 3
\* wide when no maxConcurrency is stored.
StoredOverDefaults ==
  /\ ConfigLoaded => \A k \in DOMAIN stored : k \in DOMAIN config /\ config[k] = stored[k]
  /\ LimiterBuilt /\ "maxConcurrency" \notin DOMAIN stored => width = 3

\* C17: the working configuration is the stored one over the defaults, and
\* with no defaultModel stored every request to the language-model service
\* names the model "google/gemini-flash-2.5", with no maxConcurrency stored
\* the limiter is 3 wide.
C17_DefaultModelAndWidth ==
  /\ StoredOverDefaults
  /\ IsCommand /\ "defaultModel" \notin DOMAIN stored =>
       \A r \in llmIssued : r.model = "google/gemini-flash-2.5"

\* What a command sends with no defaultModel stored: the default of
\* getWorkingConfig, in every request.
CommandsSendWorkingDefault ==
  IsCommand /\ "defaultModel" \notin DOMAIN stored =>
    \A r \in llmIssued : r.model = ConfigDefaults["defaultModel"]

\* Every staged file has its message.
AllMessagesThere == stagedFiles # <<>> /\ Len(commitMessages) = Len(stagedFiles)

\* C18: in a workflow run the index is untouched, no branch is created and no
\* commit made before every message is generated; a push comes only after
\* all n commits; a hosting request only after the push; a run ends with a
\* non-zero status exactly when a step failed, and after a failure nothing
\* more happens.
C18_StepsInSequence ==
  /\ [](options.cmd = "workflow" =>
         /\ ~AllMessagesThere =>
              /\ NoGitEffect
              /\ index = Range(stagedFiles)
              /\ branchName = {}
         /\ unstageCalled => branchName # {}
         /\ pushed # <<>> => Len(commits) = Len(stagedFiles) /\ pushed = <<TheText(branchName)>>
         /\ hosting # <<>> => pushed # <<>>
         /\ err # <<>> <=> exitCode = {1}
         /\ exitCode # {} <=> pc = "exit")
  /\ [][options.cmd = "workflow" => err = <<>> /\ exitCode = {}]_vars

\* C18 witness: a workflow run went through every step, two commits, the
\* push and the pull request.
C18_Witness ==
  /\ options.cmd = "workflow"
  /\ exitCode = {0}
  /\ Len(commits) = 2
  /\ Len(pushed) = 1
  /\ Len(hosting) = 2

OneFileEach == \A i \in 1..Len(commits) : commits[i].files = {stagedFiles[i]}

\* C19: the i-th commit of a run records the change of the i-th listed file
\* and of no other, whether or not the unstage worked, and a run that ends
\* with status 0 has made one commit per staged file.
C19_OneFilePerCommit ==
  IsCommand =>
    /\ OneFileEach
    /\ exitCode = {0} => Len(commits) = Len(stagedFiles)

\* When the first commit holds one file, the unstage having emptied the
\* index, every commit does.
OneFileEachAfterUnstage ==
  IsCommand /\ commits # <<>> /\ commits[1].files = {stagedFiles[1]} => OneFileEach

\* The keys the step's command handed to setConfig.
KeysSet ==
  IF lastOp'.op = "set" THEN {lastOp'.key}
  ELSE IF lastOp'.op = "setup" THEN Range(KnownKeys)
  ELSE {}

\* Every entry of the file but those of the keys set is there after the step
\* as it was before.
OtherKeysKept ==
  \A k \in DOMAIN file.entries \ KeysSet :
    k \in DOMAIN file'.entries /\ file'.entries[k] = file.entries[k]

\* C20: a step that sets a key, or the wizard's four, leaves every other
\* entry of the file as it was, unknown keys included, also when the file
\* could not be parsed before.
C20_SetChangesOnlyItsKey == [][OtherKeysKept]_vars

\* The same of a file that parses.
ParsedFileKeepsOtherKeys == [][file.valid => OtherKeysKept]_vars

\* The branch the workflow resolved is checked out and holds every commit of
\* the run.
OnResolvedBranch ==
  /\ currentBranch = TheText(branchName)
  /\ \A i \in 1..Len(commits) : commits[i].branch = TheText(branchName)

\* The workflow is at its push step, or has pushed.
AtPush == options.cmd = "workflow" /\ (pc = "push" \/ pushed # <<>>)

\* C21: when the workflow reaches the push of branch B, B is the checked-out
\* branch and every commit of the run is on B, also when B, supplied or
\* generated, existed before and was neither created nor switched to.
C21_PushedBranchHoldsCommits == AtPush => OnResolvedBranch

\* The same of a branch the run created.
CreatedBranchHoldsCommits == AtPush /\ created # <<>> => OnResolvedBranch

Queued(i) == pc = "generating" /\ i \in Range(queue)
Admitted(i) == i \notin Range(queue) /\ i \in inflight \cup DOMAIN results \cup failedGen
WaitsOnHosting == pc \in {"awaitLookup", "awaitPr"}
\* The options ask for no PR step.
NoPrStep == options.cmd = "commit" \/ options.noPr

====
